---- MODULE Spec2Model ----
(***************************************************************************)
(* Soundboard: sound_generator.py (synthesizer buffer lengths, the WAV     *)
(* encoder _save_wav, the TEMP_FILES registry) and main.py (mixer start-up, *)
(* SoundboardApp._prepare_sounds, play_sound, on_close).                   *)
(***************************************************************************)
EXTENDS Integers, Sequences, FiniteSets, TLC

(***************************************************************************)
(* Program constants.                                                      *)
(***************************************************************************)
SAMPLE_RATE == 44100

INT16_SCALE == 32767

\* np.int16 is 16 bits wide, two's complement
INT16_BITS == 16

\* IEEE-754 binary64: 53 significant bits (Python float, numpy float64)
DOUBLE_BITS == 53

\* the default durations are decimal literals with two places: n / 100
DurationDen == 100

(***************************************************************************)
(* Generic helpers.                                                        *)
(***************************************************************************)
Abs(x) == IF x < 0 THEN -x ELSE x

RECURSIVE Pow2(_)
Pow2(k) == IF k = 0 THEN 1 ELSE 2 * Pow2(k - 1)

Range(s) == {s[i] : i \in DOMAIN s}

\* the subsets of S with at most k elements
RECURSIVE SubsetsUpTo(_, _)
SubsetsUpTo(S, k) ==
    IF k = 0 THEN {{}}
    ELSE LET smaller == SubsetsUpTo(S, k - 1)
         IN  smaller \cup {T \cup {e} : T \in smaller, e \in S}

(***************************************************************************)
(* binary64 arithmetic on bit sequences (TLC integers are 32 bits wide, a  *)
(* 53-bit significand does not fit one).                                    *)
(* A double is [bits |-> significand, least significant bit first,         *)
(*              exp  |-> e], of value (sum bits[i] * 2^(i-1)) * 2^e.       *)
(* Long carries are done on limbs of LIMB_BITS bits.                       *)
(***************************************************************************)
LIMB_BITS == 14

\* the number a short bit sequence (least significant first) denotes
RECURSIVE ChunkToNat(_)
ChunkToNat(bits) ==
    IF bits = <<>> THEN 0 ELSE Head(bits) + 2 * ChunkToNat(Tail(bits))

NumLimbs(bits) == (Len(bits) + LIMB_BITS - 1) \div LIMB_BITS

Min(a, b) == IF a < b THEN a ELSE b

BitsToLimbs(bits) ==
    [j \in 1..NumLimbs(bits) |->
        ChunkToNat(SubSeq(bits, (j - 1) * LIMB_BITS + 1,
                          Min(j * LIMB_BITS, Len(bits))))]

\* bits of the limbs, with the zero bits above the top one bit dropped
LimbsToBits(limbs) ==
    LET all == [i \in 1..(Len(limbs) * LIMB_BITS) |->
                   (limbs[((i - 1) \div LIMB_BITS) + 1]
                       \div Pow2((i - 1) % LIMB_BITS)) % 2]
        ones == {i \in DOMAIN all : all[i] = 1}
        top  == IF ones = {} THEN 0
                ELSE CHOOSE i \in ones : \A j \in ones : j <= i
    IN  SubSeq(all, 1, top)

\* the natural number a bit sequence denotes (it must fit a TLC integer)
RECURSIVE LimbsToNat(_)
LimbsToNat(limbs) ==
    IF limbs = <<>> THEN 0
    ELSE Head(limbs) + Pow2(LIMB_BITS) * LimbsToNat(Tail(limbs))

BitsToNat(bits) == LimbsToNat(BitsToLimbs(bits))

\* bits + 1, least significant bit first
BitsInc(bits) ==
    LET zeros == {i \in DOMAIN bits : bits[i] = 0}
    IN  IF zeros = {}
        THEN [i \in 1..(Len(bits) + 1) |-> IF i = Len(bits) + 1 THEN 1 ELSE 0]
        ELSE LET p == CHOOSE i \in zeros : \A j \in zeros : i <= j
             IN  [i \in DOMAIN bits |->
                     IF i < p THEN 0 ELSE IF i = p THEN 1 ELSE bits[i]]

\* round-to-nearest, ties-to-even, to DOUBLE_BITS significant bits
RoundToDouble(d) ==
    LET len  == Len(d.bits)
        drop == len - DOUBLE_BITS
    IN  IF drop <= 0 THEN d
        ELSE LET kept   == SubSeq(d.bits, drop + 1, len)
                 half   == d.bits[drop]
                 sticky == \E i \in 1..(drop - 1) : d.bits[i] = 1
                 up     == half = 1 /\ (sticky \/ kept[1] = 1)
             IN  [bits |-> IF up THEN BitsInc(kept) ELSE kept,
                  exp  |-> d.exp + drop]

\* 2^k mod den, by repeated squaring
RECURSIVE Pow2Mod(_, _)
Pow2Mod(k, den) ==
    IF k = 0 THEN 1 % den
    ELSE LET h == Pow2Mod(k \div 2, den)
             sq == (h * h) % den
         IN  IF k % 2 = 0 THEN sq ELSE (2 * sq) % den

\* the remainder of the long division num / den after k binary digits
DivRem(num, den, k) == (num * Pow2Mod(k, den)) % den

\* digit k (k >= 1, of weight 2^-k) of the binary expansion of num / den
DivDigit(num, den, k) ==
    IF 2 * DivRem(num, den, k - 1) >= den THEN 1 ELSE 0

\* number of binary digits of a natural number
RECURSIVE BitLength(_)
BitLength(n) == IF n = 0 THEN 0 ELSE 1 + BitLength(n \div 2)

\* The binary64 nearest to the rational num / den (num >= 0, den > 0),
\* ties to even: what the Python parser makes of a decimal literal and what
\* a float division of two exactly representable operands returns.
RationalToDouble(num, den) ==
    LET q == num \div den
        r == num % den
    IN  IF num = 0 THEN [bits |-> <<>>, exp |-> 0]
        ELSE IF r = 0 THEN [bits |-> LimbsToBits(<<q>>), exp |-> 0]
        ELSE LET first == IF q > 0 THEN 1 - BitLength(q)
                          ELSE CHOOSE k \in 1..den :
                                  /\ DivDigit(r, den, k) = 1
                                  /\ \A j \in 1..(k - 1) : DivDigit(r, den, j) = 0
                 last  == first + DOUBLE_BITS - 1
                 \* digit of weight 2^-k, k <= 0 for the integer part
                 digit(k) == IF k >= 1 THEN DivDigit(r, den, k)
                             ELSE (q \div Pow2(-k)) % 2
                 \* least significant bit first
                 sig   == [i \in 1..DOUBLE_BITS |-> digit(last + 1 - i)]
                 half  == digit(last + 1)
                 up    == half = 1 /\ (DivRem(r, den, last + 1) > 0 \/ sig[1] = 1)
             IN  [bits |-> IF up THEN BitsInc(sig) ELSE sig,
                  exp  |-> -last]

\* limbs * k with carry propagation, least significant limb first
RECURSIVE LimbsTimes(_, _, _)
LimbsTimes(limbs, k, carry) ==
    IF limbs = <<>>
    THEN IF carry = 0 THEN <<>>
         ELSE <<carry % Pow2(LIMB_BITS)>>
                  \o LimbsTimes(<<>>, k, carry \div Pow2(LIMB_BITS))
    ELSE LET t == carry + k * Head(limbs)
         IN  <<t % Pow2(LIMB_BITS)>>
                 \o LimbsTimes(Tail(limbs), k, t \div Pow2(LIMB_BITS))

\* int * float: the exact product rounded to the nearest double
DoubleTimesInt(d, k) ==
    RoundToDouble([bits |-> LimbsToBits(LimbsTimes(BitsToLimbs(d.bits), k, 0)),
                   exp  |-> d.exp])

\* int(x) for a double x >= 0: truncation toward zero
DoubleToInt(d) ==
    IF d.exp >= 0 THEN BitsToNat(d.bits) * Pow2(d.exp)
    ELSE IF -d.exp >= Len(d.bits) THEN 0
    ELSE BitsToNat(SubSeq(d.bits, 1 - d.exp, Len(d.bits)))

\* int(SAMPLE_RATE * duration), duration the literal num / DurationDen
NumSamples(num) ==
    DoubleToInt(DoubleTimesInt(RationalToDouble(num, DurationDen), SAMPLE_RATE))

(***************************************************************************)
(* The library: SOUND_EFFECTS_GENERATORS in insertion order, each entry    *)
(* with the default duration of its generator in hundredths of a second.   *)
(***************************************************************************)
SOUND_EFFECTS_GENERATORS ==
    << [name |-> "Beep",      dur |-> 20],
       [name |-> "Laser",     dur |-> 30],
       [name |-> "Explosion", dur |-> 100],
       [name |-> "Click",     dur |-> 5],
       [name |-> "Power Up",  dur |-> 50],
       [name |-> "Coin",      dur |-> 20],
       [name |-> "Woosh",     dur |-> 50],
       [name |-> "Siren",     dur |-> 100],
       [name |-> "Blip",      dur |-> 10],
       [name |-> "Hit",       dur |-> 15],
       [name |-> "Static",    dur |-> 50],
       [name |-> "Boing",     dur |-> 40] >>

NumEffects == Len(SOUND_EFFECTS_GENERATORS)

EffectNames == {SOUND_EFFECTS_GENERATORS[i].name : i \in 1..NumEffects}

\* index of a library name
EffectIndex(name) ==
    CHOOSE i \in 1..NumEffects : SOUND_EFFECTS_GENERATORS[i].name = name

\* a time axis with the endpoint included
BufferLen_EndpointIncluded(i) == NumSamples(SOUND_EFFECTS_GENERATORS[i].dur) + 1

\* len(samples) of generator i: each builds its buffer (t, or the noise
\* array of generate_static) with int(SAMPLE_RATE * duration) points
BufferLen(i) == NumSamples(SOUND_EFFECTS_GENERATORS[i].dur)

\* bytes of the data subchunk wavfile.write emits for n int16 mono samples
DataBytes(n) == n * (INT16_BITS \div 8)

(***************************************************************************)
(* Bounds of the model.                                                    *)
(***************************************************************************)
\* faults the environment injects in one run of the application: iterations
\* of the preparation loop that raise, and registered files that are missing
\* or undeletable when the exit hook runs (a missing mixer is not counted)
MaxFaults == 1

\* registry module on its own: paths in play and length of TEMP_FILES
MaxPaths == 3

MaxRegistered == 3

\* encoder on its own: buffer length, and amplitudes in units of 1/SampleDen
MaxLen == 2

MaxAmp == 5

\* amplitudes are multiples of 1/SampleDen; with a power of two every input is
\* an exact double
SampleDen == 4

VARIABLES
    pc,          \* "boot", "prepare", "ui", "exited"; "registry"; "encoder", "encoded"
    mixerInit,   \* pygame.mixer.get_init()
    idx,         \* position of the preparation loop in the library
    sounds,      \* self.sounds: name -> "Sound" | "None"
    TEMP_FILES,  \* sound_generator.TEMP_FILES
    disk,        \* temp files that exist
    locked,      \* files whose os.remove raises
    created,     \* files mkstemp created in this run
    wav,         \* path -> bytes of the data subchunk of a written file
    outcome,     \* name -> how its loop iteration ended
    lastPlay,    \* what the last play_sound call did
    atexitHooks, \* number of registrations of on_close with atexit
    shutdownLog, \* calls made by the exit hooks, in order
    lastDrain,   \* what cleanup_temp_files did, if the last step called it
    lastOp,      \* the operation that made the last step
    samples,     \* encoder: the input buffer, in units of 1/SampleDen
    samples_int16, \* encoder: the quantized buffer
    divided      \* encoder: the division by the peak was evaluated

vars == << pc, mixerInit, idx, sounds, TEMP_FILES, disk, locked, created, wav,
           outcome, lastPlay, atexitHooks, shutdownLog, lastDrain, lastOp,
           samples, samples_int16, divided >>

appVars == << mixerInit, idx, sounds, created, wav, outcome, lastPlay,
              atexitHooks, shutdownLog >>

encVars == << samples, samples_int16, divided >>

EmptyDict == [k \in {} |-> "None"]

\* d[k] = v of a Python dict
DictSet(d, k, v) == [x \in DOMAIN d \cup {k} |-> IF x = k THEN v ELSE d[x]]

NoDrain == [paths |-> <<>>, attempted |-> <<>>, removed |-> {}, warned |-> <<>>,
            raised |-> FALSE]

NoPlay == [name |-> "", submitted |-> <<>>, log |-> "", raised |-> FALSE]

(***************************************************************************)
(* sound_generator.py: _save_wav, normalization and quantization.          *)
(* A buffer is a sequence of integers v, the sample being v / SampleDen.   *)
(***************************************************************************)
\* np.max(np.abs(samples)), in units of 1/SampleDen
Peak(buf) == CHOOSE m \in {Abs(buf[i]) : i \in DOMAIN buf} :
                \A i \in DOMAIN buf : Abs(buf[i]) <= m

\* astype(np.int16) of an integer-valued result: 16 bits, two's complement
ToInt16(n) ==
    ((n + Pow2(INT16_BITS - 1)) % Pow2(INT16_BITS)) - Pow2(INT16_BITS - 1)

Sign(v) == IF v < 0 THEN -1 ELSE 1

\* _save_wav without the normalization
NormalizedMagnitude_Unscaled(v, peak) == RationalToDouble(Abs(v), SampleDen)

\* samples / peak if peak > 0 else samples: magnitude of one element
NormalizedMagnitude(v, peak) ==
    IF peak > 0 THEN RationalToDouble(Abs(v), peak)
    ELSE RationalToDouble(Abs(v), SampleDen)

\* (samples * 32767).astype(np.int16): one element, truncated toward zero
QuantizeSample(v, peak) ==
    ToInt16(Sign(v) * DoubleToInt(DoubleTimesInt(NormalizedMagnitude(v, peak),
                                                 INT16_SCALE)))

\* lines 14 and 16 of _save_wav
NormalizeAndQuantize(buf) ==
    LET peak == Peak(buf)
    IN  [samples_int16 |-> [i \in DOMAIN buf |-> QuantizeSample(buf[i], peak)],
         divided       |-> peak > 0]

(***************************************************************************)
(* sound_generator.py: the temp-file registry.                             *)
(***************************************************************************)
add_temp_file(files, path) == Append(files, path)

\* cleanup loop without the try/except: the first os.remove that raises
\* ends the loop
RECURSIVE CleanupLoop_NoTry(_, _, _)
CleanupLoop_NoTry(files, fs, bad) ==
    IF files = <<>>
    THEN [disk |-> fs, attempted |-> <<>>, warned |-> <<>>, raised |-> FALSE]
    ELSE LET f      == Head(files)
             exists == f \in fs
             raises == exists /\ f \in bad
             rest   == CleanupLoop_NoTry(Tail(files),
                                         IF exists THEN fs \ {f} ELSE fs, bad)
         IN  IF raises
             THEN [disk |-> fs, attempted |-> <<f>>, warned |-> <<>>,
                   raised |-> TRUE]
             ELSE [disk      |-> rest.disk,
                   attempted |-> (IF exists THEN <<f>> ELSE <<>>) \o rest.attempted,
                   warned    |-> rest.warned,
                   raised    |-> rest.raised]

\* cleanup loop that calls os.remove without the os.path.exists test, so a
\* missing file raises FileNotFoundError and is warned about
RECURSIVE CleanupLoop_WarnMissing(_, _, _)
CleanupLoop_WarnMissing(files, fs, bad) ==
    IF files = <<>>
    THEN [disk |-> fs, attempted |-> <<>>, warned |-> <<>>, raised |-> FALSE]
    ELSE LET f      == Head(files)
             raises == f \notin fs \/ f \in bad
             rest   == CleanupLoop_WarnMissing(Tail(files),
                                               IF raises THEN fs ELSE fs \ {f},
                                               bad)
         IN  [disk      |-> rest.disk,
              attempted |-> <<f>> \o rest.attempted,
              warned    |-> (IF raises THEN <<f>> ELSE <<>>) \o rest.warned,
              raised    |-> rest.raised]

\* The loop of cleanup_temp_files over `files`, on the file system `fs`
\* where os.remove raises for the files in `bad`: the files left, the paths
\* os.remove was called on, the paths a warning was printed for, and whether
\* an exception left the loop.
RECURSIVE CleanupLoop(_, _, _)
CleanupLoop(files, fs, bad) ==
    IF files = <<>>
    THEN [disk |-> fs, attempted |-> <<>>, warned |-> <<>>, raised |-> FALSE]
    ELSE LET f      == Head(files)
             exists == f \in fs
             raises == exists /\ f \in bad
             rest   == CleanupLoop(Tail(files),
                                   IF exists /\ ~raises THEN fs \ {f} ELSE fs,
                                   bad)
         IN  [disk      |-> rest.disk,
              attempted |-> (IF exists THEN <<f>> ELSE <<>>) \o rest.attempted,
              warned    |-> (IF raises THEN <<f>> ELSE <<>>) \o rest.warned,
              raised    |-> rest.raised]

\* cleanup_temp_files() without the final TEMP_FILES.clear()
cleanup_temp_files_NoClear(files, fs, bad) ==
    LET r == CleanupLoop(files, fs, bad)
    IN  [TEMP_FILES |-> files,
         disk       |-> r.disk,
         lastDrain  |-> [paths     |-> files,
                         attempted |-> r.attempted,
                         removed   |-> fs \ r.disk,
                         warned    |-> r.warned,
                         raised    |-> r.raised]]

\* cleanup_temp_files(): the loop, then TEMP_FILES.clear()
cleanup_temp_files(files, fs, bad) ==
    LET r == CleanupLoop(files, fs, bad)
    IN  [TEMP_FILES |-> IF r.raised THEN files ELSE <<>>,
         disk       |-> r.disk,
         lastDrain  |-> [paths     |-> files,
                         attempted |-> r.attempted,
                         removed   |-> fs \ r.disk,
                         warned    |-> r.warned,
                         raised    |-> r.raised]]

(***************************************************************************)
(* main.py: start-up.                                                      *)
(***************************************************************************)
RaisedOutcomes == {"generate_raised", "write_raised", "load_raised"}

Failures == Cardinality({n \in DOMAIN outcome : outcome[n] \in RaisedOutcomes})

\* an except clause that leaves a handle in place
HandleOnException_Live == "Sound"

\* the except clause of _prepare_sounds: self.sounds[name] = None
HandleOnException == "None"

\* the else branch of the get_init() test: self.sounds[name] = None
HandleWithoutMixer == "None"

\* registration moved before the write (inside _save_wav, after mkstemp)
RegisteredOn_BeforeWrite(how, path) ==
    IF how \in {"write_raised", "load_raised", "no_mixer", "loaded"}
    THEN <<path>> ELSE <<>>

\* the paths add_temp_file is reached with, given how the iteration went:
\* the call follows the return of generator_func() and precedes the load
RegisteredOn(how, path) ==
    IF how \in {"load_raised", "no_mixer", "loaded"} THEN <<path>> ELSE <<>>

\* module level: pygame.mixer.init(...) in a try/except pygame.error
MixerInit ==
    /\ pc = "boot"
    /\ \E ok \in BOOLEAN : mixerInit' = ok
    /\ pc' = "prepare"
    /\ lastOp' = "mixer_init"
    /\ UNCHANGED << idx, sounds, TEMP_FILES, disk, locked, created, wav, outcome,
                    lastPlay, atexitHooks, shutdownLog, lastDrain, encVars >>

\* One iteration of the loop of _prepare_sounds for effect idx, ending `how`,
\* leaving `handle` in self.sounds; `fileMade`: mkstemp created the file;
\* `written`: wavfile.write completed.
PrepareIteration(how, handle, fileMade, written) ==
    LET name == SOUND_EFFECTS_GENERATORS[idx].name
        path == idx
        regs == RegisteredOn(how, path)
    IN  /\ pc = "prepare"
        /\ idx <= NumEffects
        /\ sounds' = DictSet(sounds, name, handle)
        /\ outcome' = DictSet(outcome, name, how)
        /\ disk' = IF fileMade THEN disk \cup {path} ELSE disk
        /\ created' = IF fileMade THEN created \cup {path} ELSE created
        /\ wav' = IF written THEN DictSet(wav, path, DataBytes(BufferLen(idx)))
                  ELSE wav
        /\ TEMP_FILES' = IF regs = <<>> THEN TEMP_FILES
                         ELSE add_temp_file(TEMP_FILES, regs[1])
        /\ idx' = idx + 1
        /\ lastOp' = "prepare"
        /\ UNCHANGED << pc, mixerInit, locked, lastPlay, atexitHooks,
                        shutdownLog, lastDrain, encVars >>

\* generator_func() raises before a file exists: in the synthesis, or mkstemp
GeneratorRaises ==
    /\ Failures < MaxFaults
    /\ PrepareIteration("generate_raised", HandleOnException, FALSE, FALSE)

\* mkstemp made the file, wavfile.write raises: _save_wav returns no path
WriteRaises ==
    /\ Failures < MaxFaults
    /\ PrepareIteration("write_raised", HandleOnException, TRUE, FALSE)

\* pygame.mixer.Sound(wav_path) raises
LoadRaises ==
    /\ Failures < MaxFaults
    /\ mixerInit
    /\ PrepareIteration("load_raised", HandleOnException, TRUE, TRUE)

\* pygame.mixer.get_init() is false
MixerMissing ==
    /\ ~mixerInit
    /\ PrepareIteration("no_mixer", HandleWithoutMixer, TRUE, TRUE)

Loaded ==
    /\ mixerInit
    /\ PrepareIteration("loaded", "Sound", TRUE, TRUE)

\* the rest of __init__: _create_widgets(), atexit.register(self.on_close)
FinishInit ==
    /\ pc = "prepare"
    /\ idx > NumEffects
    /\ atexitHooks' = atexitHooks + 1
    /\ pc' = "ui"
    /\ lastOp' = "finish_init"
    /\ UNCHANGED << mixerInit, idx, sounds, TEMP_FILES, disk, locked, created,
                    wav, outcome, lastPlay, shutdownLog, lastDrain, encVars >>

(***************************************************************************)
(* main.py: the event loop.                                                *)
(***************************************************************************)
ClickNames == EffectNames \cup {"Unknown"}

\* play_sound without the `sound_name in self.sounds` test: KeyError
play_sound_NoMembershipTest(snds, sound_name) ==
    IF sound_name \notin DOMAIN snds
    THEN [sounds |-> snds,
          play   |-> [name |-> sound_name, submitted |-> <<>>,
                      log |-> "", raised |-> TRUE]]
    ELSE IF snds[sound_name] # "None"
    THEN [sounds |-> snds,
          play   |-> [name |-> sound_name, submitted |-> <<sound_name>>,
                      log |-> "Playing", raised |-> FALSE]]
    ELSE [sounds |-> snds,
          play   |-> [name |-> sound_name, submitted |-> <<>>,
                      log |-> "not loaded or mixer issue", raised |-> FALSE]]

\* play_sound(sound_name) on the mapping snds
play_sound(snds, sound_name) ==
    IF sound_name \in DOMAIN snds /\ snds[sound_name] # "None"
    THEN [sounds |-> snds,
          play   |-> [name |-> sound_name, submitted |-> <<sound_name>>,
                      log |-> "Playing", raised |-> FALSE]]
    ELSE [sounds |-> snds,
          play   |-> [name |-> sound_name, submitted |-> <<>>,
                      log |-> "not loaded or mixer issue", raised |-> FALSE]]

PlaySound ==
    /\ pc = "ui"
    /\ \E name \in ClickNames :
          LET r == play_sound(sounds, name)
          IN  /\ sounds' = r.sounds
              /\ lastPlay' = r.play
    /\ lastOp' = "play"
    /\ UNCHANGED << pc, mixerInit, idx, TEMP_FILES, disk, locked, created, wav,
                    outcome, atexitHooks, shutdownLog, lastDrain, encVars >>

(***************************************************************************)
(* main.py: interpreter exit.                                              *)
(***************************************************************************)
\* on_close() that only shuts the mixer down
on_close_NoCleanup(st, bad) ==
    [TEMP_FILES  |-> st.TEMP_FILES,
     disk        |-> st.disk,
     lastDrain   |-> st.lastDrain,
     mixerInit   |-> FALSE,
     shutdownLog |-> st.shutdownLog \o <<"mixer.quit">>]

\* on_close(): cleanup_temp_files(), then pygame.mixer.quit()
on_close(st, bad) ==
    LET c == cleanup_temp_files(st.TEMP_FILES, st.disk, bad)
    IN  [TEMP_FILES  |-> c.TEMP_FILES,
         disk        |-> c.disk,
         lastDrain   |-> c.lastDrain,
         mixerInit   |-> FALSE,
         shutdownLog |-> st.shutdownLog \o <<"cleanup_temp_files", "mixer.quit">>]

\* atexit runs every registered hook once
RECURSIVE RunExitHooks(_, _, _)
RunExitHooks(n, st, bad) ==
    IF n = 0 THEN st ELSE RunExitHooks(n - 1, on_close(st, bad), bad)

\* mainloop() returns and the interpreter exits; the files in `gone` were
\* deleted by someone else meanwhile, os.remove raises for those in `bad`
Exit ==
    /\ pc = "ui"
    /\ \E faults \in SubsetsUpTo(Range(TEMP_FILES), MaxFaults - Failures) :
       \E bad \in SUBSET faults :
          LET gone == faults \ bad
              st == [TEMP_FILES |-> TEMP_FILES, disk |-> disk \ gone,
                     lastDrain |-> lastDrain, mixerInit |-> mixerInit,
                     shutdownLog |-> shutdownLog]
              r  == RunExitHooks(atexitHooks, st, bad)
          IN  /\ TEMP_FILES' = r.TEMP_FILES
              /\ disk' = r.disk
              /\ lastDrain' = r.lastDrain
              /\ mixerInit' = r.mixerInit
              /\ shutdownLog' = r.shutdownLog
              /\ locked' = bad
    /\ pc' = "exited"
    /\ lastPlay' = NoPlay
    /\ lastOp' = "exit"
    /\ UNCHANGED << idx, sounds, created, wav, outcome, atexitHooks, encVars >>

Init ==
    /\ pc = "boot"
    /\ mixerInit = FALSE
    /\ idx = 1
    /\ sounds = EmptyDict
    /\ TEMP_FILES = <<>>
    /\ disk = {}
    /\ locked = {}
    /\ created = {}
    /\ wav = EmptyDict
    /\ outcome = EmptyDict
    /\ lastPlay = NoPlay
    /\ atexitHooks = 0
    /\ shutdownLog = <<>>
    /\ lastDrain = NoDrain
    /\ lastOp = "init"
    /\ samples = <<>>
    /\ samples_int16 = <<>>
    /\ divided = FALSE

Next ==
    \/ MixerInit
    \/ GeneratorRaises
    \/ WriteRaises
    \/ LoadRaises
    \/ MixerMissing
    \/ Loaded
    \/ FinishInit
    \/ PlaySound
    \/ Exit

Spec == Init /\ [][Next]_vars

(***************************************************************************)
(* The registry on its own: any caller of add_temp_file and                *)
(* cleanup_temp_files, on a file system others write to as well.           *)
(***************************************************************************)
Paths == 1..MaxPaths

Register ==
    /\ pc = "registry"
    /\ Len(TEMP_FILES) < MaxRegistered
    /\ \E path \in Paths : TEMP_FILES' = add_temp_file(TEMP_FILES, path)
    /\ lastOp' = "register"
    /\ lastDrain' = NoDrain
    /\ UNCHANGED << pc, disk, locked, appVars, encVars >>

\* a file appears under a path (mkstemp, or anyone else)
CreateFile ==
    /\ pc = "registry"
    /\ \E path \in Paths \ disk : disk' = disk \cup {path}
    /\ lastOp' = "create"
    /\ lastDrain' = NoDrain
    /\ UNCHANGED << pc, TEMP_FILES, locked, appVars, encVars >>

\* someone else deletes a file
ExternalDelete ==
    /\ pc = "registry"
    /\ \E path \in disk :
          /\ disk' = disk \ {path}
          /\ locked' = locked \ {path}
    /\ lastOp' = "external_delete"
    /\ lastDrain' = NoDrain
    /\ UNCHANGED << pc, TEMP_FILES, appVars, encVars >>

\* a file becomes undeletable (permissions, a handle held open)
Protect ==
    /\ pc = "registry"
    /\ \E path \in disk \ locked : locked' = locked \cup {path}
    /\ lastOp' = "protect"
    /\ lastDrain' = NoDrain
    /\ UNCHANGED << pc, TEMP_FILES, disk, appVars, encVars >>

Drain ==
    /\ pc = "registry"
    /\ LET c == cleanup_temp_files(TEMP_FILES, disk, locked)
       IN  /\ TEMP_FILES' = c.TEMP_FILES
           /\ disk' = c.disk
           /\ lastDrain' = c.lastDrain
    /\ lastOp' = IF lastOp \in {"drain", "drain_again"} THEN "drain_again"
                 ELSE "drain"
    /\ UNCHANGED << pc, locked, appVars, encVars >>

InitReg ==
    /\ pc = "registry"
    /\ mixerInit = FALSE
    /\ idx = 1
    /\ sounds = EmptyDict
    /\ TEMP_FILES = <<>>
    /\ disk = {}
    /\ locked = {}
    /\ created = {}
    /\ wav = EmptyDict
    /\ outcome = EmptyDict
    /\ lastPlay = NoPlay
    /\ atexitHooks = 0
    /\ shutdownLog = <<>>
    /\ lastDrain = NoDrain
    /\ lastOp = "init"
    /\ samples = <<>>
    /\ samples_int16 = <<>>
    /\ divided = FALSE

NextReg ==
    \/ Register
    \/ CreateFile
    \/ ExternalDelete
    \/ Protect
    \/ Drain

SpecReg == InitReg /\ [][NextReg]_vars

(***************************************************************************)
(* The encoder on its own: _save_wav on any small buffer.                  *)
(***************************************************************************)
Amplitudes == (-MaxAmp)..MaxAmp

Buffers == UNION {[1..n -> Amplitudes] : n \in 1..MaxLen}

\* _save_wav(samples, prefix): quantize, mkstemp, wavfile.write
SaveWav ==
    /\ pc = "encoder"
    /\ LET q == NormalizeAndQuantize(samples)
       IN  /\ samples_int16' = q.samples_int16
           /\ divided' = q.divided
    /\ \E io \in {"ok", "mkstemp_raised", "write_raised"} :
          /\ disk' = IF io = "mkstemp_raised" THEN disk ELSE disk \cup {1}
          /\ created' = IF io = "mkstemp_raised" THEN created
                        ELSE created \cup {1}
          /\ wav' = IF io = "ok"
                    THEN DictSet(wav, 1, DataBytes(Len(samples)))
                    ELSE wav
          /\ lastOp' = io
    /\ pc' = "encoded"
    /\ UNCHANGED << mixerInit, idx, sounds, TEMP_FILES, locked, outcome,
                    lastPlay, atexitHooks, shutdownLog, lastDrain, samples >>

InitEnc ==
    /\ pc = "encoder"
    /\ mixerInit = FALSE
    /\ idx = 1
    /\ sounds = EmptyDict
    /\ TEMP_FILES = <<>>
    /\ disk = {}
    /\ locked = {}
    /\ created = {}
    /\ wav = EmptyDict
    /\ outcome = EmptyDict
    /\ lastPlay = NoPlay
    /\ atexitHooks = 0
    /\ shutdownLog = <<>>
    /\ lastDrain = NoDrain
    /\ lastOp = "init"
    /\ samples \in Buffers
    /\ samples_int16 = <<>>
    /\ divided = FALSE

NextEnc == SaveWav

SpecEnc == InitEnc /\ [][NextEnc]_vars

(***************************************************************************)
(* Properties.                                                             *)
(***************************************************************************)
Prepared == {SOUND_EFFECTS_GENERATORS[i].name : i \in 1..(idx - 1)}

DrainOps == {"drain", "drain_again"}

\* C1: preparation isolates failures per effect. Every effect the loop has
\* passed has an entry in self.sounds, whatever happened to the effects
\* before it; the entry is a live handle exactly when every step of that
\* effect succeeded and None otherwise; every iteration, however it ends,
\* moves the loop to the next effect; once preparation is over every library
\* name has an entry; and when the mixer did not initialize every handle is
\* None while start-up still reaches the event loop.
C1_PrepareIsolatesFailures ==
    /\ [](pc \in {"prepare", "ui", "exited"} =>
             /\ idx \in 1..(NumEffects + 1)
             /\ DOMAIN sounds = Prepared
             /\ DOMAIN outcome = Prepared
             /\ \A n \in DOMAIN sounds :
                   /\ sounds[n] = "Sound" <=> outcome[n] = "loaded"
                   /\ outcome[n] \in RaisedOutcomes \cup {"no_mixer"}
                         => sounds[n] = "None")
    /\ [](pc \in {"ui", "exited"} => DOMAIN sounds = EffectNames)
    /\ []((pc \in {"prepare", "ui"} /\ ~mixerInit) =>
             \A n \in DOMAIN sounds : sounds[n] = "None")
    /\ [][pc = "prepare" =>
             \/ pc' = "prepare" /\ idx' = idx + 1
             \/ pc' = "ui" /\ idx = NumEffects + 1]_vars

\* C1 witness: preparation is over, one effect failed and a later one holds
\* a live handle.
C1_Witness ==
    /\ pc = "ui"
    /\ \E n, m \in EffectNames :
          /\ outcome[n] \in RaisedOutcomes
          /\ sounds[n] = "None"
          /\ EffectIndex(n) < EffectIndex(m)
          /\ sounds[m] = "Sound"

\* C2: play_sound never raises; for a name without a live handle (absent
\* after a failure, or not in the mapping) it logs, submits nothing and
\* leaves self.sounds and TEMP_FILES as they were; for a name with a live
\* handle it submits exactly one playback of that name.
C2_PlayNeverRaises ==
    [][lastOp' = "play" =>
          LET n    == lastPlay'.name
              live == n \in DOMAIN sounds /\ sounds[n] = "Sound"
          IN  /\ ~lastPlay'.raised
              /\ sounds' = sounds
              /\ TEMP_FILES' = TEMP_FILES
              /\ live => lastPlay'.submitted = <<n>>
              /\ ~live => /\ lastPlay'.submitted = <<>>
                          /\ lastPlay'.log = "not loaded or mixer issue"]_vars

\* C2 witness: a click on an effect whose handle is None was served.
C2_Witness ==
    /\ lastOp = "play"
    /\ lastPlay.name \in DOMAIN sounds
    /\ sounds[lastPlay.name] = "None"
    /\ lastPlay.submitted = <<>>
    /\ ~lastPlay.raised

\* C3: TEMP_FILES changes only by appends while the application prepares,
\* does not change while the event loop runs, and at exit the hook has run
\* cleanup_temp_files then mixer.quit exactly once, leaving TEMP_FILES empty.
C3_RegistryLifecycle ==
    /\ [][/\ pc = "boot" => TEMP_FILES' = TEMP_FILES
          /\ pc = "prepare" =>
                \/ TEMP_FILES' = TEMP_FILES
                \/ \E path \in 1..NumEffects :
                      TEMP_FILES' = Append(TEMP_FILES, path)
          /\ (pc = "ui" /\ pc' = "ui") => TEMP_FILES' = TEMP_FILES
          /\ pc = "exited" => pc' = "exited"]_vars
    /\ [](pc # "exited" => shutdownLog = <<>>)
    /\ [](pc = "exited" =>
             /\ shutdownLog = <<"cleanup_temp_files", "mixer.quit">>
             /\ TEMP_FILES = <<>>
             /\ ~mixerInit)

\* C3 witness: the application exited after registering files, and the hook
\* deleted some.
C3_Witness ==
    /\ pc = "exited"
    /\ Len(lastDrain.paths) > 0
    /\ lastDrain.removed # {}
    /\ Len(shutdownLog) = 2

\* C4: in a drain, a path whose deletion fails (missing file, os.remove
\* raising) neither raises out of cleanup_temp_files nor stops the other
\* deletions: os.remove is called on every registered path that exists,
\* every registered file that exists and is deletable is gone afterwards,
\* nothing else is touched, and TEMP_FILES is empty.
C4_DrainIsolatesFailures ==
    [][lastOp' \in DrainOps =>
          /\ ~lastDrain'.raised
          /\ TEMP_FILES' = <<>>
          /\ Range(lastDrain'.attempted) = Range(TEMP_FILES) \cap disk
          /\ disk' = disk \ (Range(TEMP_FILES) \ locked)]_vars

\* C4 witness: a drain of three entries in which an os.remove raised, a
\* file was missing, and a later entry was deleted all the same.
C4_Witness ==
    /\ lastOp = "drain"
    /\ Len(lastDrain.paths) = 3
    /\ \E i, j, k \in 1..3 :
          /\ i < j
          /\ lastDrain.paths[i] \in Range(lastDrain.warned)
          /\ lastDrain.paths[j] \in lastDrain.removed
          /\ lastDrain.paths[k] \notin Range(lastDrain.attempted)

\* C5: drain is idempotent. After any registrations (duplicates included) a
\* drain leaves TEMP_FILES empty, and a drain right after a drain calls
\* os.remove on nothing, warns of nothing, raises nothing and leaves
\* TEMP_FILES and the files as they are.
C5_DrainIdempotent ==
    /\ [](lastOp \in DrainOps => TEMP_FILES = <<>>)
    /\ [][(lastOp \in DrainOps /\ lastOp' = "drain_again") =>
             /\ lastDrain'.paths = <<>>
             /\ lastDrain'.attempted = <<>>
             /\ lastDrain'.warned = <<>>
             /\ ~lastDrain'.raised
             /\ TEMP_FILES' = <<>>
             /\ disk' = disk
             /\ locked' = locked]_vars

\* C5 witness: a second drain in a row, with an undeletable file still there.
C5_Witness ==
    /\ lastOp = "drain_again"
    /\ locked # {}
    /\ TEMP_FILES = <<>>

Undeletable(path) == path \in disk /\ path \in locked

C7_OnlyEncodedFilesRegistered ==
    /\ \A i \in DOMAIN TEMP_FILES :
          LET path == TEMP_FILES[i]
              name == SOUND_EFFECTS_GENERATORS[path].name
          IN  /\ name \in DOMAIN outcome
              /\ outcome[name] \in {"load_raised", "no_mixer", "loaded"}
              /\ path \in DOMAIN wav
    /\ \A i, j \in DOMAIN TEMP_FILES : TEMP_FILES[i] = TEMP_FILES[j] => i = j
    /\ \A n \in DOMAIN outcome :
          outcome[n] \in {"generate_raised", "write_raised"} =>
             /\ EffectIndex(n) \notin Range(TEMP_FILES)
             /\ sounds[n] = "None"

\* C7 witness: preparation is over, the encoder raised while writing one
\* effect's file, and the other eleven paths are registered.
C7_Witness ==
    /\ pc = "ui"
    /\ \E n \in EffectNames :
          /\ outcome[n] = "write_raised"
          /\ EffectIndex(n) \notin Range(TEMP_FILES)
    /\ Len(TEMP_FILES) = NumEffects - 1

\* peak magnitude of a quantized buffer
PeakOut(out) == CHOOSE m \in {Abs(out[i]) : i \in DOMAIN out} :
                   \A i \in DOMAIN out : Abs(out[i]) <= m

\* C8: for a non-empty buffer every quantized sample lies in
\* -32767..32767; an all-zero buffer is not divided and encodes to zeros;
\* otherwise the largest output magnitude is within one step of 32767.
C8_QuantizationRange ==
    pc = "encoded" =>
       /\ Len(samples_int16) = Len(samples)
       /\ \A i \in DOMAIN samples_int16 :
             -INT16_SCALE <= samples_int16[i] /\ samples_int16[i] <= INT16_SCALE
       /\ (\A i \in DOMAIN samples : samples[i] = 0) =>
             /\ ~divided
             /\ \A i \in DOMAIN samples_int16 : samples_int16[i] = 0
       /\ (\E i \in DOMAIN samples : samples[i] # 0) =>
             PeakOut(samples_int16) >= INT16_SCALE - 1

\* C8 witness: an encoded buffer whose peak lies outside [-1, 1] and which
\* holds a smaller non-zero sample of the other sign.
C8_Witness ==
    /\ pc = "encoded"
    /\ Peak(samples) > SampleDen
    /\ \E i, j \in DOMAIN samples :
          /\ samples[i] < 0
          /\ samples[j] > 0
          /\ Abs(samples[i]) # Abs(samples[j])

\* round(duration * SAMPLE_RATE) of the exact decimal duration dur / 100
RoundedSamples(dur) ==
    (2 * SAMPLE_RATE * dur + DurationDen) \div (2 * DurationDen)

\* C9: every written file holds 2 bytes per sample of a buffer of
\* round(duration * 44100) samples, the length the generators get by
\* truncating the floating-point product; Beep (0.2 s) has 8820 samples and
\* 17640 data bytes.
C9_BufferLengths ==
    /\ \A path \in DOMAIN wav :
          /\ path \in 1..NumEffects
          /\ wav[path] = 2 * RoundedSamples(SOUND_EFFECTS_GENERATORS[path].dur)
    /\ EffectIndex("Beep") \in DOMAIN wav =>
          wav[EffectIndex("Beep")] = 8820 * 2

\* C9 witness: all twelve files are written, Beep's data is 17640 bytes.
C9_Witness ==
    /\ pc = "ui"
    /\ DOMAIN wav = 1..NumEffects
    /\ wav[EffectIndex("Beep")] = 17640

\* C10 as stated: once preparation is over every file mkstemp created in
\* this run is registered, and after the exit hook no such file is left
\* unless its own deletion failed.
C10_NoTempFileLeaked ==
    /\ pc = "ui" => created \subseteq Range(TEMP_FILES)
    /\ pc = "exited" => \A path \in created \cap disk : path \in locked

====
